---- MODULE Spec2Model ----
(***************************************************************************)
(* The perf event specifier parser of tools/perf/perf-rs/src/pmu_events.rs *)
(* A &str is a sequence of one-character strings.  A combine parser is an  *)
(* operator of the input s and the 1-based position p it starts at; it     *)
(* yields [st, pos, val] where st is combine's ParseResult (CommitOk,      *)
(* PeekOk, CommitErr, PeekErr) or "Panic" when a map closure panics, pos   *)
(* is the position after the consumed input (the failing position on an    *)
(* error) and val is the output.                                           *)
(***************************************************************************)
EXTENDS Integers, Sequences, FiniteSets, TLC

VARIABLES input, op, result, serialized, diagnostic,
          list_args, COLUMNS, arguments, returned, tracepoint_dir, pipe, steps, stdout, status,
          tracepoint_reads

\* the input, the parser applied to it and what it returned
parser_vars == <<input, op, result, serialized, diagnostic>>

\* the arguments and the environment of print_event and do_list, what
\* print_event returned, and the progress and the output of do_list
list_vars == <<list_args, COLUMNS, arguments, returned, tracepoint_dir, pipe, steps, stdout, status,
               tracepoint_reads>>

vars == <<parser_vars, list_vars>>

-----------------------------------------------------------------------------
(* Characters *)

Digits == {"0", "1", "2", "3", "4", "5", "6", "7", "8", "9"}

LowerLetters ==
    {"a", "b", "c", "d", "e", "f", "g", "h", "i", "j", "k", "l", "m",
     "n", "o", "p", "q", "r", "s", "t", "u", "v", "w", "x", "y", "z"}

UpperLetters ==
    {"A", "B", "C", "D", "E", "F", "G", "H", "I", "J", "K", "L", "M",
     "N", "O", "P", "Q", "R", "S", "T", "U", "V", "W", "X", "Y", "Z"}

\* char::is_alphanumeric on the ASCII characters the model uses
is_alphanumeric(c) == c \in Digits \cup LowerLetters \cup UpperLetters

\* char::is_ascii_hexdigit
is_ascii_hexdigit(c) ==
    c \in Digits \cup {"a", "b", "c", "d", "e", "f"} \cup {"A", "B", "C", "D", "E", "F"}

\* char::to_digit(16) of a hexadecimal digit, as u64::from_str_radix uses it
to_digit(c) ==
    CASE c = "0" -> 0 [] c = "1" -> 1 [] c = "2" -> 2 [] c = "3" -> 3
      [] c = "4" -> 4 [] c = "5" -> 5 [] c = "6" -> 6 [] c = "7" -> 7
      [] c = "8" -> 8 [] c = "9" -> 9
      [] c \in {"a", "A"} -> 10 [] c \in {"b", "B"} -> 11
      [] c \in {"c", "C"} -> 12 [] c \in {"d", "D"} -> 13
      [] c \in {"e", "E"} -> 14 [] c \in {"f", "F"} -> 15

-----------------------------------------------------------------------------
(* PmuEventModifier and its conversion from a character *)

PmuEventModifier ==
    {"UserSpaceCounting", "KernelCounting", "HypervisorCounting",
     "NonIdleCounting", "GuestCounting", "HostCounting", "PreciseLevel",
     "UseMaxPreciseLevel", "ReadSampleValue", "Pin", "GroupWeak",
     "GroupExclusive", "BpfAggregation"}

\* mutant: 'p' is taken for the maximum precise level, as 'P' is
try_from_p_as_P(value) ==
    CASE value = "u" -> "UserSpaceCounting"
      [] value = "k" -> "KernelCounting"
      [] value = "h" -> "HypervisorCounting"
      [] value = "I" -> "NonIdleCounting"
      [] value = "G" -> "GuestCounting"
      [] value = "H" -> "HostCounting"
      [] value = "p" -> "UseMaxPreciseLevel"
      [] value = "P" -> "UseMaxPreciseLevel"
      [] value = "S" -> "ReadSampleValue"
      [] value = "D" -> "Pin"
      [] value = "W" -> "GroupWeak"
      [] value = "e" -> "GroupExclusive"
      [] value = "b" -> "BpfAggregation"
      [] OTHER -> "Err"

\* mutant: the arm for 'b' is missing, so 'b' is an invalid modifier
try_from_without_b(value) ==
    CASE value = "u" -> "UserSpaceCounting"
      [] value = "k" -> "KernelCounting"
      [] value = "h" -> "HypervisorCounting"
      [] value = "I" -> "NonIdleCounting"
      [] value = "G" -> "GuestCounting"
      [] value = "H" -> "HostCounting"
      [] value = "p" -> "PreciseLevel"
      [] value = "P" -> "UseMaxPreciseLevel"
      [] value = "S" -> "ReadSampleValue"
      [] value = "D" -> "Pin"
      [] value = "W" -> "GroupWeak"
      [] value = "e" -> "GroupExclusive"
      [] OTHER -> "Err"

\* TryFrom<char> for PmuEventModifier: "Err" is the bail!("Invalid modifier")
try_from(value) ==
    CASE value = "u" -> "UserSpaceCounting"
      [] value = "k" -> "KernelCounting"
      [] value = "h" -> "HypervisorCounting"
      [] value = "I" -> "NonIdleCounting"
      [] value = "G" -> "GuestCounting"
      [] value = "H" -> "HostCounting"
      [] value = "p" -> "PreciseLevel"
      [] value = "P" -> "UseMaxPreciseLevel"
      [] value = "S" -> "ReadSampleValue"
      [] value = "D" -> "Pin"
      [] value = "W" -> "GroupWeak"
      [] value = "e" -> "GroupExclusive"
      [] value = "b" -> "BpfAggregation"
      [] OTHER -> "Err"

-----------------------------------------------------------------------------
(* combine's primitives *)

IsOk(r) == r.st \in {"CommitOk", "PeekOk"}

IsErr(r) == r.st \in {"CommitErr", "PeekErr"}

\* token(c): one character equal to c
token(c, s, p) ==
    IF p <= Len(s) /\ s[p] = c
    THEN [st |-> "CommitOk", pos |-> p + 1, val |-> <<c>>]
    ELSE [st |-> "PeekErr", pos |-> p, val |-> <<>>]

\* eof(): succeeds, consuming nothing, exactly at the end of the input
eof(s, p) ==
    IF p > Len(s)
    THEN [st |-> "PeekOk", pos |-> p, val |-> <<>>]
    ELSE [st |-> "PeekErr", pos |-> p, val |-> <<>>]

\* mutant: attempt is missing, an error after consumption stays one
attempt_absent(r) == r

\* attempt(parser): an error after consumption becomes an error without
\* consumption (the input is reset to where the parser started)
attempt(r) == IF r.st = "CommitErr" THEN [r EXCEPT !.st = "PeekErr"] ELSE r

\* optional(parser) where None is mapped to `none`: only an error without
\* consumption is turned into None, at the position p the parser started at
optional(r, p, none) ==
    IF r.st = "PeekErr" THEN [st |-> "PeekOk", pos |-> p, val |-> none] ELSE r

\* the status of a sequence (a, b, ...) after the component with result r ran
\* from a prefix whose components left `committed`
seq_st(committed, r) ==
    CASE r.st = "Panic" -> "Panic"
      [] IsErr(r) -> IF committed \/ r.st = "CommitErr" THEN "CommitErr" ELSE "PeekErr"
      [] OTHER -> IF committed \/ r.st = "CommitOk" THEN "CommitOk" ELSE "PeekOk"

-----------------------------------------------------------------------------
(* modifier() and modifiers() *)

\* the predicate given to satisfy() in modifier()
modifier_pred(c) ==
    \/ c = "u"
    \/ c = "k"
    \/ c = "h"
    \/ c = "I"
    \/ c = "G"
    \/ c = "H"
    \/ c = "p"
    \/ c = "P"
    \/ c = "S"
    \/ c = "D"
    \/ c = "W"
    \/ c = "e"
    \/ c = "b"

\* satisfy(..).map(|c| PmuEventModifier::try_from(c).unwrap()): the unwrap of
\* an Err panics
modifier(s, p) ==
    IF p <= Len(s) /\ modifier_pred(s[p])
    THEN IF try_from(s[p]) = "Err"
         THEN [st |-> "Panic", pos |-> p, val |-> "Err"]
         ELSE [st |-> "CommitOk", pos |-> p + 1, val |-> try_from(s[p])]
    ELSE [st |-> "PeekErr", pos |-> p, val |-> "Err"]

MinModifiers == 1

MaxModifiers == 16

\* count_min_max(min, max, modifier()): modifier() is applied until it fails
\* or max outputs are collected; fewer than min outputs is an error
RECURSIVE count_min_max(_, _, _, _, _)
count_min_max(min, max, s, p, acc) ==
    IF Len(acc) >= max
    THEN [st |-> IF acc = <<>> THEN "PeekOk" ELSE "CommitOk", pos |-> p, val |-> acc]
    ELSE LET r == modifier(s, p)
         IN  CASE r.st = "CommitOk" ->
                    count_min_max(min, max, s, r.pos, Append(acc, r.val))
               [] r.st = "Panic" -> [st |-> "Panic", pos |-> p, val |-> <<>>]
               [] OTHER ->
                    IF Len(acc) < min
                    THEN [st |-> IF acc = <<>> THEN "PeekErr" ELSE "CommitErr",
                          pos |-> p, val |-> <<>>]
                    ELSE [st |-> IF acc = <<>> THEN "PeekOk" ELSE "CommitOk",
                          pos |-> p, val |-> acc]

\* mutant: the modifier list may be empty (count_min_max(0, 16, ..))
modifiers_min0(s, p) ==
    LET colon == token(":", s, p)
        list  == count_min_max(0, MaxModifiers, s, colon.pos, <<>>)
    IN  IF ~IsOk(colon)
        THEN [st |-> seq_st(FALSE, colon), pos |-> colon.pos, val |-> <<>>]
        ELSE [st |-> seq_st(TRUE, list), pos |-> list.pos, val |-> list.val]

\* mutant: a repeated modifier is recorded once
modifiers_dedup(s, p) ==
    LET colon == token(":", s, p)
        list  == count_min_max(MinModifiers, MaxModifiers, s, colon.pos, <<>>)
        first(i) == \A j \in 1..(i - 1) : list.val[j] # list.val[i]
    IN  IF ~IsOk(colon)
        THEN [st |-> seq_st(FALSE, colon), pos |-> colon.pos, val |-> <<>>]
        ELSE [st |-> seq_st(TRUE, list), pos |-> list.pos,
              val |-> SelectSeq([i \in 1..Len(list.val) |->
                                   IF first(i) THEN list.val[i] ELSE "dup"],
                                LAMBDA m : m # "dup")]

\* mutant: the 16th modifier is not taken (count_min_max(1, 15, ..))
modifiers_max15(s, p) ==
    LET colon == token(":", s, p)
        list  == count_min_max(MinModifiers, MaxModifiers - 1, s, colon.pos, <<>>)
    IN  IF ~IsOk(colon)
        THEN [st |-> seq_st(FALSE, colon), pos |-> colon.pos, val |-> <<>>]
        ELSE [st |-> seq_st(TRUE, list), pos |-> list.pos, val |-> list.val]

\* (token(':'), count_min_max(1, 16, modifier())).map(|(_, modifiers)| modifiers)
modifiers(s, p) ==
    LET colon == token(":", s, p)
        list  == count_min_max(MinModifiers, MaxModifiers, s, colon.pos, <<>>)
    IN  IF ~IsOk(colon)
        THEN [st |-> seq_st(FALSE, colon), pos |-> colon.pos, val |-> <<>>]
        ELSE [st |-> seq_st(TRUE, list), pos |-> list.pos, val |-> list.val]

-----------------------------------------------------------------------------
(* parse_name() *)

\* the predicate of the first satisfy() of parse_name()
name_start_pred(c) ==
    is_alphanumeric(c) \/ c = "_" \/ c = "*" \/ c = "?" \/ c = "[" \/ c = "]"

\* the predicate of the satisfy() under many1 in parse_name()
name_rest_pred(c) ==
    \/ is_alphanumeric(c)
    \/ c = "_"
    \/ c = "*"
    \/ c = "?"
    \/ c = "["
    \/ c = "]"
    \/ c = "."
    \/ c = "!"
    \/ c = "-"

\* the position at which many(satisfy(name_rest_pred)) stops
RECURSIVE many_name_rest(_, _)
many_name_rest(s, p) ==
    IF p <= Len(s) /\ name_rest_pred(s[p]) THEN many_name_rest(s, p + 1) ELSE p

\* mutant: many instead of many1, a single character is a name
parse_name_many0(s, p) ==
    LET end == many_name_rest(s, p + 1)
    IN  IF ~(p <= Len(s) /\ name_start_pred(s[p]))
        THEN [st |-> "PeekErr", pos |-> p, val |-> <<>>]
        ELSE [st |-> "CommitOk", pos |-> end, val |-> SubSeq(s, p, end - 1)]

\* (satisfy(start), many1(satisfy(rest))).map(first followed by rest)
parse_name(s, p) ==
    LET end == many_name_rest(s, p + 1)
    IN  IF ~(p <= Len(s) /\ name_start_pred(s[p]))
        THEN [st |-> "PeekErr", pos |-> p, val |-> <<>>]
        ELSE IF end = p + 1
        THEN [st |-> "CommitErr", pos |-> p + 1, val |-> <<>>]
        ELSE [st |-> "CommitOk", pos |-> end, val |-> SubSeq(s, p, end - 1)]

-----------------------------------------------------------------------------
(* PmuEvent and the three event parsers *)

NoEvent ==
    [kind |-> "None", category |-> <<>>, name |-> <<>>, value |-> <<>>,
     modifier |-> <<>>]

SymbolicEvent(n, m) ==
    [kind |-> "SymbolicEvent", category |-> <<>>, name |-> n,
     value |-> <<>>, modifier |-> m]

TracepointEvent(c, n, m) ==
    [kind |-> "TracepointEvent", category |-> c, name |-> n,
     value |-> <<>>, modifier |-> m]

\* value is a u64, held as its hexadecimal digits (each 0..15), most
\* significant first and without leading zeros: zero is <<>>
RawEvent(v, m) ==
    [kind |-> "RawEvent", category |-> <<>>, name |-> <<>>, value |-> v,
     modifier |-> m]

Failed(st, pos) == [st |-> st, pos |-> pos, val |-> NoEvent]

\* (parse_name(), optional(modifiers()), eof()).map(SymbolicEvent)
parse_symbolic_event(s, p) ==
    LET name == parse_name(s, p)
        mods == optional(modifiers(s, name.pos), name.pos, <<>>)
        end  == eof(s, mods.pos)
        c1   == name.st = "CommitOk"
        c2   == c1 \/ mods.st = "CommitOk"
    IN  IF ~IsOk(name) THEN Failed(seq_st(FALSE, name), name.pos)
        ELSE IF ~IsOk(mods) THEN Failed(seq_st(c1, mods), mods.pos)
        ELSE IF ~IsOk(end) THEN Failed(seq_st(c2, end), end.pos)
        ELSE [st |-> seq_st(c2, end), pos |-> end.pos,
              val |-> SymbolicEvent(name.val, mods.val)]

\* mutant: the category and the name are stored the wrong way round
parse_tracepoint_event_swapped(s, p) ==
    LET category == parse_name(s, p)
        colon    == token(":", s, category.pos)
        name     == parse_name(s, colon.pos)
        mods     == optional(modifiers(s, name.pos), name.pos, <<>>)
        end      == eof(s, mods.pos)
        c1       == category.st = "CommitOk"
    IN  IF ~IsOk(category) THEN Failed(seq_st(FALSE, category), category.pos)
        ELSE IF ~IsOk(colon) THEN Failed(seq_st(c1, colon), colon.pos)
        ELSE IF ~IsOk(name) THEN Failed(seq_st(TRUE, name), name.pos)
        ELSE IF ~IsOk(mods) THEN Failed(seq_st(TRUE, mods), mods.pos)
        ELSE IF ~IsOk(end) THEN Failed(seq_st(TRUE, end), end.pos)
        ELSE [st |-> "CommitOk", pos |-> end.pos,
              val |-> TracepointEvent(name.val, category.val, mods.val)]

\* (parse_name(), token(':'), parse_name(), optional(modifiers()), eof())
\*     .map(TracepointEvent)
parse_tracepoint_event(s, p) ==
    LET category == parse_name(s, p)
        colon    == token(":", s, category.pos)
        name     == parse_name(s, colon.pos)
        mods     == optional(modifiers(s, name.pos), name.pos, <<>>)
        end      == eof(s, mods.pos)
        c1       == category.st = "CommitOk"
    IN  IF ~IsOk(category) THEN Failed(seq_st(FALSE, category), category.pos)
        ELSE IF ~IsOk(colon) THEN Failed(seq_st(c1, colon), colon.pos)
        ELSE IF ~IsOk(name) THEN Failed(seq_st(TRUE, name), name.pos)
        ELSE IF ~IsOk(mods) THEN Failed(seq_st(TRUE, mods), mods.pos)
        ELSE IF ~IsOk(end) THEN Failed(seq_st(TRUE, end), end.pos)
        ELSE [st |-> "CommitOk", pos |-> end.pos,
              val |-> TracepointEvent(category.val, name.val, mods.val)]

\* the number of hexadecimal digits of u64::MAX
U64HexDigits == 16

\* u64::from_str_radix(src, 16) on a non-empty string of hexadecimal digits:
\* result = result * 16 + digit for each digit, checked; an overflow is
\* Err(PosOverflow)
RECURSIVE from_str_radix(_, _, _)
from_str_radix(src, i, acc) ==
    IF i > Len(src)
    THEN [ok |-> TRUE, value |-> acc]
    ELSE LET d    == to_digit(src[i])
             next == IF acc = <<>> /\ d = 0 THEN <<>> ELSE Append(acc, d)
         IN  IF Len(next) > U64HexDigits
             THEN [ok |-> FALSE, value |-> <<>>]
             ELSE from_str_radix(src, i + 1, next)

\* the position at which skip_many(satisfy(is_ascii_hexdigit)) stops
RECURSIVE skip_many_hexdigit(_, _)
skip_many_hexdigit(s, p) ==
    IF p <= Len(s) /\ is_ascii_hexdigit(s[p]) THEN skip_many_hexdigit(s, p + 1) ELSE p

\* mutant: the "0x" prefix is not recognised
optional_0x_absent(s, p) == [st |-> "PeekOk", pos |-> p, val |-> <<>>]

\* optional(attempt((token('0'), token('x')))): the position after it
optional_0x(s, p) ==
    LET zero == token("0", s, p)
        x    == token("x", s, zero.pos)
        pair == IF ~IsOk(zero) THEN [st |-> seq_st(FALSE, zero), pos |-> zero.pos, val |-> <<>>]
                ELSE [st |-> seq_st(TRUE, x), pos |-> x.pos, val |-> <<>>]
    IN  optional(attempt(pair), p, <<>>)

\* recognize(skip_many1(satisfy(is_ascii_hexdigit))): the digits consumed
recognize_hexdigits(s, p) ==
    LET end == skip_many_hexdigit(s, p)
    IN  IF end = p
        THEN [st |-> "PeekErr", pos |-> p, val |-> <<>>]
        ELSE [st |-> "CommitOk", pos |-> end, val |-> SubSeq(s, p, end - 1)]

\* (token('r'), optional(attempt("0x")), recognize(hex digits),
\*  optional(modifiers())).map(RawEvent): there is no eof(); the unwrap of
\* an overflowing from_str_radix panics
parse_raw_event(s, p) ==
    LET r      == token("r", s, p)
        prefix == optional_0x(s, r.pos)
        value  == recognize_hexdigits(s, prefix.pos)
        mods   == optional(modifiers(s, value.pos), value.pos, <<>>)
        parsed == from_str_radix(value.val, 1, <<>>)
    IN  IF ~IsOk(r) THEN Failed(seq_st(FALSE, r), r.pos)
        ELSE IF ~IsOk(prefix) THEN Failed(seq_st(TRUE, prefix), prefix.pos)
        ELSE IF ~IsOk(value) THEN Failed(seq_st(TRUE, value), value.pos)
        ELSE IF ~IsOk(mods) THEN Failed(seq_st(TRUE, mods), mods.pos)
        ELSE IF ~parsed.ok THEN Failed("Panic", mods.pos)
        ELSE [st |-> "CommitOk", pos |-> mods.pos,
              val |-> RawEvent(parsed.value, mods.val)]

\* the later of two positions: easy::Errors::merge keeps the error that is
\* further into the input
Later(a, b) == IF a >= b THEN a ELSE b

\* mutant: the symbolic alternative is tried before the tracepoint one
parse_event_symbolic_first(s, p) ==
    LET raw        == attempt(parse_raw_event(s, p))
        tracepoint == attempt(parse_tracepoint_event(s, p))
        symbolic   == attempt(parse_symbolic_event(s, p))
    IN  IF raw.st # "PeekErr" THEN raw
        ELSE IF symbolic.st # "PeekErr" THEN symbolic
        ELSE IF tracepoint.st # "PeekErr" THEN tracepoint
        ELSE Failed("PeekErr", Later(raw.pos, Later(tracepoint.pos, symbolic.pos)))

\* choice((attempt(raw), attempt(tracepoint), attempt(symbolic))): the first
\* alternative that does not fail without consumption decides
parse_event(s, p) ==
    LET raw        == attempt(parse_raw_event(s, p))
        tracepoint == attempt(parse_tracepoint_event(s, p))
        symbolic   == attempt(parse_symbolic_event(s, p))
    IN  IF raw.st # "PeekErr" THEN raw
        ELSE IF tracepoint.st # "PeekErr" THEN tracepoint
        ELSE IF symbolic.st # "PeekErr" THEN symbolic
        ELSE Failed("PeekErr", Later(raw.pos, Later(tracepoint.pos, symbolic.pos)))

\* (parser, eof()).map(|(x, _)| x), as the tests build it, given the result
\* r of parser
then_eof(r, s) ==
    LET end == eof(s, r.pos)
    IN  IF ~IsOk(r) THEN r
        ELSE IF ~IsOk(end)
        THEN [st |-> seq_st(r.st = "CommitOk", end), pos |-> end.pos, val |-> NoEvent]
        ELSE r

\* EasyParser::easy_parse: Ok((output, rest of the input)) or Err(errors at
\* a position); pos is the 0-indexed offset reached, or of the error
easy_parse(r, s) ==
    CASE IsOk(r) ->
           [st |-> "Ok", event |-> r.val, rest |-> SubSeq(s, r.pos, Len(s)),
            pos |-> r.pos - 1]
      [] r.st = "Panic" ->
           [st |-> "Panic", event |-> NoEvent, rest |-> <<>>, pos |-> r.pos - 1]
      [] OTHER ->
           [st |-> "Err", event |-> NoEvent, rest |-> <<>>, pos |-> r.pos - 1]

-----------------------------------------------------------------------------
(* The inputs and the operations applied to them *)

\* the characters short inputs are drawn from: the raw-event leader, the
\* digit and the letter of the "0x" prefix, a hexadecimal digit that is also
\* a modifier, a modifier that is no hexadecimal digit, the colon, and a
\* character a name may only continue with
Sigma == {"r", "0", "x", "e", "u", ":", "-"}

MaxLen == 3

\* how far the long runs go beyond the limits of 16 modifiers and 16 digits
RunSlack == 1

Strings(n) == UNION {[1..k -> Sigma] : k \in 0..n}

ModCycle == <<"u", "k", "p", "P", "e", "b", "D">>

ModRun(n) == [i \in 1..n |-> ModCycle[((i - 1) % Len(ModCycle)) + 1]]

HexRun(n) == [i \in 1..n |-> "f"]

Mids == {<<>>, <<":", "u", "k">>}

Runs ==
    {<<>>, <<":">>, <<":", "u">>}
    \cup {<<":">> \o ModRun(n) : n \in (MaxModifiers - 1)..(MaxModifiers + RunSlack)}
    \cup {HexRun(n) : n \in (U64HexDigits - 1)..(U64HexDigits + RunSlack)}
    \cup {HexRun(U64HexDigits + 1) \o <<":", "u">>}

\* the inputs of the tests and the examples of the documentation
Examples ==
    {<<":","u","p","p","p">>,
     <<":","u","v","h">>,
     <<"c","p","u","-","c","y","c","l","e","s",":","P">>,
     <<"s","c","h","e","d",":","s","c","h","e","d","_","s","w","i","t","c","h",":","P">>,
     <<"r","0","x","d","e","a","d","b","e","e","f","c","a","f","e",":","u">>,
     <<"r","0","5","0","0">>,
     <<"r","e","f","-","c","y","c","l","e","s">>,
     <<"r","a","w","_","s","y","s","c","a","l","l","s",":","s","y","s","_","e","n","t","e","r">>}

Punctuation == {"_", "*", "?", "[", "]", ".", "!", "-", ":", ",", " ", "/", "=", "@"}

CharUniverse == Digits \cup LowerLetters \cup UpperLetters \cup Punctuation

\* a modifier suffix around the limit of 16, followed by a character that is
\* no modifier
BrokenSuffixes ==
    {<<":">> \o ModRun(n) \o <<"v">> : n \in (MaxModifiers - 1)..(MaxModifiers + RunSlack)}

\* the characters every character is paired with, before and after
PairChars == {"a", "Z", "7", ".", "-", "!", "_", ":", " "}

Pairs ==
    {<<c, d>> : c \in CharUniverse, d \in PairChars}
    \cup {<<d, c>> : c \in CharUniverse, d \in PairChars}
    \cup {<<c, d, d>> : c \in PairChars, d \in PairChars}

Inputs ==
    {head \o mid \o run : head \in Strings(MaxLen), mid \in Mids, run \in Runs}
    \cup Examples
    \cup {<<c>> : c \in CharUniverse}
    \cup BrokenSuffixes
    \cup Pairs

NoResult == [st |-> "None", event |-> NoEvent, rest |-> <<>>, pos |-> 0]

ModifierList(m) ==
    [kind |-> "Modifiers", category |-> <<>>, name |-> <<>>, value |-> <<>>,
     modifier |-> m]

\* the first token of the input at position p, as an error reports it
token_at(s, p) == IF p <= Len(s) THEN s[p] ELSE "end of input"

NoDiagnostic == [pos |-> 0, unexpected |-> "none", expected |-> "none"]

\* the error of (modifiers(), eof()).easy_parse(input) after
\* map_position(translate_position), as test_modifiers formats it: the
\* 0-indexed offset, the unexpected token and what the failing parser expects
\* (the colon, a modifier: the message "Invalid modifier", or the end of input)
modifiers_error(s) ==
    LET r   == modifiers(s, 1)
        end == eof(s, r.pos)
    IN  CASE r.st = "Panic" -> NoDiagnostic
          [] ~IsOk(r) ->
               [pos |-> r.pos - 1, unexpected |-> token_at(s, r.pos),
                expected |-> IF r.pos = 1 THEN ":" ELSE "Invalid modifier"]
          [] ~IsOk(end) ->
               [pos |-> end.pos - 1, unexpected |-> token_at(s, end.pos),
                expected |-> "end of input"]
          [] OTHER -> NoDiagnostic

\* the character of a modifier
modifier_char(m) ==
    CASE m = "UserSpaceCounting" -> "u"
      [] m = "KernelCounting" -> "k"
      [] m = "HypervisorCounting" -> "h"
      [] m = "NonIdleCounting" -> "I"
      [] m = "GuestCounting" -> "G"
      [] m = "HostCounting" -> "H"
      [] m = "PreciseLevel" -> "p"
      [] m = "UseMaxPreciseLevel" -> "P"
      [] m = "ReadSampleValue" -> "S"
      [] m = "Pin" -> "D"
      [] m = "GroupWeak" -> "W"
      [] m = "GroupExclusive" -> "e"
      [] m = "BpfAggregation" -> "b"

LowerHex == <<"0", "1", "2", "3", "4", "5", "6", "7", "8", "9",
              "a", "b", "c", "d", "e", "f">>

\* a u64 in hexadecimal, as {:x} formats it: zero is "0"
format_hex(value) ==
    IF value = <<>> THEN <<"0">> ELSE [i \in 1..Len(value) |-> LowerHex[value[i] + 1]]

\* an event written back as a specifier: the name, or category ':' name, or
\* 'r' and the value in hexadecimal; then, when there are modifiers, ':' and
\* their characters in order
serialize(event) ==
    LET body   == CASE event.kind = "SymbolicEvent" -> event.name
                    [] event.kind = "TracepointEvent" ->
                         event.category \o <<":">> \o event.name
                    [] event.kind = "RawEvent" -> <<"r">> \o format_hex(event.value)
        suffix == IF event.modifier = <<>> THEN <<>>
                  ELSE <<":">> \o [i \in 1..Len(event.modifier) |->
                                      modifier_char(event.modifier[i])]
    IN  body \o suffix

-----------------------------------------------------------------------------
(* perf list: print_event of tools/perf/perf-rs/src/list.rs.  A String is  *)
(* a sequence of one-character strings, an Option<T> a record.             *)

\* Option::None and Option::Some(x)
None == [some |-> FALSE, v |-> <<>>]

Some(x) == [some |-> TRUE, v |-> x]

\* " ".repeat(n)
repeat(c, n) == [i \in 1..n |-> c]

\* the length the name and alias are padded to before the [type] tag
TagColumn == 53

\* the width of format!("{:>8}", ..)
DetailIndent == 8

\* the columns taken off the terminal width before wrapping
WrapMargin == 8

\* get_columns() when env is no number
DefaultColumns == 80

\* values of the environment variable env: a narrow terminal, and no
\* number
NarrowColumns == <<"2", "0">>

NoColumns == <<"w", "i", "d", "e">>

\* str::parse::<u64> (and ::<usize>) of a decimal text short enough not to overflow
RECURSIVE parse_u64(_, _, _)
parse_u64(text, i, acc) ==
    IF text = <<>> \/ (i = 1 /\ text = <<"+">>) THEN [ok |-> FALSE, n |-> 0]
    ELSE IF i > Len(text) THEN [ok |-> TRUE, n |-> acc]
    ELSE IF i = 1 /\ text[1] = "+" THEN parse_u64(text, 2, acc)
    ELSE IF text[i] \notin Digits THEN [ok |-> FALSE, n |-> 0]
    ELSE parse_u64(text, i + 1, acc * 10 + to_digit(text[i]))

\* get_columns(): var("env").unwrap_or("80").parse().unwrap_or(80)
get_columns(env) ==
    LET columns == parse_u64(IF env.some THEN env.v ELSE <<"8", "0">>, 1, 0)
    IN  IF columns.ok THEN columns.n ELSE DefaultColumns

\* textwrap::wrap(text, width) for a text that fits in one line, or that is
\* one word: a word longer than the width is broken every width characters
RECURSIVE wrap(_, _)
wrap(text, width) ==
    IF Len(text) <= width THEN <<text>>
    ELSE <<SubSeq(text, 1, width)>> \o wrap(SubSeq(text, width + 1, Len(text)), width)

\* lines.into_iter().fold(String::new(), ..): the first line, then each line
\* after "\n", 8 spaces and a space
RECURSIVE fold_lines(_, _, _)
fold_lines(lines, i, acc) ==
    IF i > Len(lines) THEN acc
    ELSE fold_lines(lines, i + 1,
                    IF acc = <<>> THEN acc \o lines[i]
                    ELSE acc \o <<"\n">> \o repeat(" ", DetailIndent) \o <<" ">> \o lines[i])

\* format!("{:>8}", "["): the bracket right-aligned in 8 columns
open_bracket == repeat(" ", DetailIndent - 1) \o <<"[">>

default_core == <<"d", "e", "f", "a", "u", "l", "t", "_", "c", "o", "r", "e">>

\* the description with the unit of the PMU, as the --desc branch builds it;
\* chars().last().unwrap() panics on an empty description
desc_with_unit(pmu_name, desc) ==
    IF pmu_name.some /\ pmu_name.v = default_core
    THEN IF desc = <<>> THEN [st |-> "Panic", v |-> <<>>]
         ELSE IF desc[Len(desc)] # "."
         THEN [st |-> "Ok", v |-> desc \o <<".", " ", "U", "n", "i", "t", ":", " ">> \o pmu_name.v]
         ELSE [st |-> "Ok", v |-> desc \o <<" ", "U", "n", "i", "t", ":", " ">> \o pmu_name.v]
    ELSE [st |-> "Ok", v |-> desc]

\* print_event: None for a hidden event, else Some(buf); st is "Panic" when
\* an unwrap panics
print_event(args, pmu_name, event_name, event_alias, deprecated, event_type_desc, desc, long_desc, encoding_desc, env) ==
    LET width   == get_columns(env) - WrapMargin
        indent  == <<" ", " ">>
        named   == IF event_name.some THEN indent \o event_name.v ELSE indent
        aliased == IF event_alias.some THEN named \o <<" ", "O", "R", " ">> \o event_alias.v
                   ELSE named
        padded  == IF Len(aliased) < TagColumn
                   THEN aliased \o repeat(" ", TagColumn - Len(aliased))
                   ELSE aliased
        typed   == IF event_type_desc.some
                   THEN padded \o <<"[">> \o event_type_desc.v \o <<"]">>
                   ELSE aliased
        unit    == desc_with_unit(pmu_name, desc.v)
        described ==
            IF args.long_desc
            THEN IF long_desc.some
                 THEN typed \o <<"\n">> \o open_bracket
                            \o fold_lines(wrap(long_desc.v, width), 1, <<>>) \o <<"]">>
                 ELSE typed
            ELSE IF args.desc /\ desc.some
            THEN typed \o <<"\n">> \o open_bracket
                       \o fold_lines(wrap(unit.v, width), 1, <<>>) \o <<"]", "\n">>
            ELSE typed
        detailed ==
            IF args.details /\ encoding_desc.some
            THEN described \o <<"\n">> \o repeat(" ", DetailIndent) \o <<" ">> \o encoding_desc.v
            ELSE described
    IN  IF ~args.deprecated /\ deprecated
        THEN [st |-> "None", v |-> <<>>]
        ELSE IF ~args.long_desc /\ args.desc /\ desc.some /\ unit.st = "Panic"
        THEN [st |-> "Panic", v |-> <<>>]
        ELSE [st |-> "Some", v |-> detailed]

-----------------------------------------------------------------------------
(* perf list: do_list of tools/perf/perf-rs/src/list.rs *)

HW_EVENTS ==
    <<[symbol |-> <<"c", "p", "u", "-", "c", "y", "c", "l", "e", "s">>,
       alias |-> Some(<<"c", "y", "c", "l", "e", "s">>)],
      [symbol |-> <<"i", "n", "s", "t", "r", "u", "c", "t", "i", "o", "n", "s">>,
       alias |-> None],
      [symbol |-> <<"c", "a", "c", "h", "e", "-", "r", "e", "f", "e", "r", "e", "n", "c", "e", "s">>,
       alias |-> None],
      [symbol |-> <<"c", "a", "c", "h", "e", "-", "m", "i", "s", "s", "e", "s">>,
       alias |-> None],
      [symbol |-> <<"b", "r", "a", "n", "c", "h", "-", "i", "n", "s", "t", "r", "u", "c", "t", "i", "o", "n", "s">>,
       alias |-> Some(<<"b", "r", "a", "n", "c", "h", "e", "s">>)],
      [symbol |-> <<"b", "r", "a", "n", "c", "h", "-", "m", "i", "s", "s", "e", "s">>,
       alias |-> None],
      [symbol |-> <<"b", "u", "s", "-", "c", "y", "c", "l", "e", "s">>,
       alias |-> None],
      [symbol |-> <<"s", "t", "a", "l", "l", "e", "d", "-", "c", "y", "c", "l", "e", "s", "-", "f", "r", "o", "n", "t", "e", "n", "d">>,
       alias |-> Some(<<"i", "d", "l", "e", "-", "c", "y", "c", "l", "e", "s", "-", "f", "r", "o", "n", "t", "e", "n", "d">>)],
      [symbol |-> <<"s", "t", "a", "l", "l", "e", "d", "-", "c", "y", "c", "l", "e", "s", "-", "b", "a", "c", "k", "e", "n", "d">>,
       alias |-> Some(<<"i", "d", "l", "e", "-", "c", "y", "c", "l", "e", "s", "-", "b", "a", "c", "k", "e", "n", "d">>)],
      [symbol |-> <<"r", "e", "f", "-", "c", "y", "c", "l", "e", "s">>,
       alias |-> None]>>

SW_EVENTS ==
    <<[symbol |-> <<"c", "p", "u", "-", "c", "l", "o", "c", "k">>,
       alias |-> None],
      [symbol |-> <<"t", "a", "s", "k", "-", "c", "l", "o", "c", "k">>,
       alias |-> None],
      [symbol |-> <<"p", "a", "g", "e", "-", "f", "a", "u", "l", "t", "s">>,
       alias |-> Some(<<"f", "a", "u", "l", "t", "s">>)],
      [symbol |-> <<"c", "o", "n", "t", "e", "x", "t", "-", "s", "w", "i", "t", "c", "h", "e", "s">>,
       alias |-> Some(<<"c", "s">>)],
      [symbol |-> <<"c", "p", "u", "-", "m", "i", "g", "r", "a", "t", "i", "o", "n", "s">>,
       alias |-> Some(<<"m", "i", "g", "r", "a", "t", "i", "o", "n", "s">>)],
      [symbol |-> <<"m", "i", "n", "o", "r", "-", "f", "a", "u", "l", "t", "s">>,
       alias |-> None],
      [symbol |-> <<"m", "a", "j", "o", "r", "-", "f", "a", "u", "l", "t", "s">>,
       alias |-> None],
      [symbol |-> <<"a", "l", "i", "g", "n", "m", "e", "n", "t", "-", "f", "a", "u", "l", "t", "s">>,
       alias |-> None],
      [symbol |-> <<"e", "m", "u", "l", "a", "t", "i", "o", "n", "-", "f", "a", "u", "l", "t", "s">>,
       alias |-> None],
      [symbol |-> <<"d", "u", "m", "m", "y">>,
       alias |-> None],
      [symbol |-> <<"b", "p", "f", "-", "o", "u", "t", "p", "u", "t">>,
       alias |-> None],
      [symbol |-> <<"c", "g", "r", "o", "u", "p", "-", "s", "w", "i", "t", "c", "h", "e", "s">>,
       alias |-> None]>>

\* the fields of ListArgs that do_list and print_event read, with the values
\* clap gives them when no option is set
DefaultListArgs ==
    [desc |-> TRUE, long_desc |-> FALSE, details |-> FALSE, deprecated |-> FALSE,
     event |-> "None"]

\* enum EventType, without the libpfm4 feature
EventType ==
    {"HW", "SW", "Cache", "Tracepoint", "PMU", "SDT", "Metric", "MetricGroup", "EventGlob"}

\* the characters in the order of their codes (the quote, the backslash and
\* the backtick, which no line has, left out), by which Vec<String>::sort orders the lines
CharOrder ==
    <<"\n", " ", "!", "#", "$", "%", "&", "'", "(", ")", "*", "+", ",",
      "-", ".", "/", "0", "1", "2", "3", "4", "5", "6", "7", "8", "9",
      ":", ";", "<", "=", ">", "?", "@", "A", "B", "C", "D", "E", "F",
      "G", "H", "I", "J", "K", "L", "M", "N", "O", "P", "Q", "R", "S",
      "T", "U", "V", "W", "X", "Y", "Z", "[", "]", "^", "_", "a", "b",
      "c", "d", "e", "f", "g", "h", "i", "j", "k", "l", "m", "n", "o",
      "p", "q", "r", "s", "t", "u", "v", "w", "x", "y", "z", "{", "|",
      "}", "~">>

char_code(c) == CHOOSE i \in DOMAIN CharOrder : CharOrder[i] = c

\* a < b for two Strings
RECURSIVE str_lt(_, _)
str_lt(a, b) ==
    IF b = <<>> THEN FALSE
    ELSE IF a = <<>> THEN TRUE
    ELSE IF a[1] # b[1] THEN char_code(a[1]) < char_code(b[1])
    ELSE str_lt(Tail(a), Tail(b))

insert_sorted(sorted, line) ==
    LET before == SelectSeq(sorted, LAMBDA l : ~str_lt(line, l))
        after  == SelectSeq(sorted, LAMBDA l : str_lt(line, l))
    IN  before \o <<line>> \o after

\* result.sort()
RECURSIVE sort(_)
sort(lines) ==
    IF lines = <<>> THEN <<>>
    ELSE insert_sorted(sort(SubSeq(lines, 1, Len(lines) - 1)), lines[Len(lines)])

\* the lines print_symbol_events collects from a table and sorts
symbol_lines(events, event_type, env) ==
    LET outs == [i \in 1..Len(events) |->
                    print_event(DefaultListArgs, None, Some(events[i].symbol),
                                events[i].alias, FALSE, Some(event_type),
                                None, None, None, env)]
        some == SelectSeq(outs, LAMBDA o : o.st = "Some")
    IN  sort([i \in 1..Len(some) |-> some[i].v])

\* str::trim
RECURSIVE trim(_)
trim(text) ==
    IF text = <<>> THEN text
    ELSE IF text[1] \in {" ", "\n"} THEN trim(Tail(text))
    ELSE IF text[Len(text)] \in {" ", "\n"} THEN trim(SubSeq(text, 1, Len(text) - 1))
    ELSE text

\* format!("{:#x}", id)
RECURSIVE lower_hex(_)
lower_hex(n) ==
    IF n < 16 THEN <<LowerHex[n + 1]>>
    ELSE lower_hex(n \div 16) \o <<LowerHex[(n % 16) + 1]>>

\* the encoding of the tracepoint of an event directory: None without an id
\* file; the unwraps panic on an id file that cannot be read or is no number
event_desc(event) ==
    LET id == parse_u64(trim(event.id.content), 1, 0)
    IN  IF ~event.id.exists THEN [st |-> "Ok", v |-> None]
        ELSE IF ~event.id.readable \/ ~id.ok THEN [st |-> "Panic", v |-> None]
        ELSE [st |-> "Ok",
              v |-> Some(<<"t", "r", "a", "c", "e", "p", "o", "i", "n", "t", "/", "c", "o", "n", "f", "i", "g", "=">> \o <<"0", "x">> \o lower_hex(id.n) \o <<"/">>)]

\* the inner loop of print_tracepoint_events over the entries of a category
RECURSIVE walk_events(_, _, _, _, _)
walk_events(args, category, i, acc, env) ==
    IF i > Len(category.entries) THEN [st |-> "Ok", lines |-> acc]
    ELSE LET event == category.entries[i]
             enc   == event_desc(event)
             out   == print_event(args, None,
                                  Some(category.name \o <<":">> \o event.name), None,
                                  FALSE, Some(<<"T", "r", "a", "c", "e", "p", "o", "i", "n", "t", " ", "e", "v", "e", "n", "t">>), None, None,
                                  enc.v, env)
         IN  IF ~event.readable THEN [st |-> "Err", lines |-> acc]
             ELSE IF ~event.is_dir THEN walk_events(args, category, i + 1, acc, env)
             ELSE IF enc.st = "Panic" \/ out.st = "Panic" THEN [st |-> "Panic", lines |-> acc]
             ELSE walk_events(args, category, i + 1,
                              IF out.st = "Some" THEN Append(acc, out.v) ELSE acc, env)

\* the outer loop of print_tracepoint_events over the entries of the
\* tracepoint directory
RECURSIVE walk_categories(_, _, _, _, _)
walk_categories(args, entries, i, acc, env) ==
    IF i > Len(entries) THEN [st |-> "Ok", lines |-> acc]
    ELSE LET category == entries[i]
             inner    == walk_events(args, category, 1, acc, env)
         IN  IF ~category.readable THEN [st |-> "Err", lines |-> acc]
             ELSE IF ~category.is_dir THEN walk_categories(args, entries, i + 1, acc, env)
             ELSE IF ~category.listable THEN [st |-> "Err", lines |-> acc]
             ELSE IF inner.st # "Ok" THEN inner
             ELSE walk_categories(args, entries, i + 1, inner.lines, env)

\* the lines print_tracepoint_events collects and sorts, or the error or
\* panic that ends it before anything is written
tracepoint_lines(args, tracefs, env) ==
    LET walked == walk_categories(args, tracefs.entries, 1, <<>>, env)
    IN  IF ~tracefs.listable THEN [st |-> "Err", lines |-> <<>>]
        ELSE IF walked.st # "Ok" THEN [st |-> walked.st, lines |-> <<>>]
        ELSE [st |-> "Ok", lines |-> sort(walked.lines)]

\* the steps of do_list after the heading, for the selected event type: the
\* arm of the match, then the statements after the match
println(text) == [step |-> "println", text |-> text, events |-> "none"]

call(function, events, text) == [step |-> function, text |-> text, events |-> events]

print_tracepoint_events == call("print_tracepoint_events", "none", <<>>)

stub(function) == call(function, "none", <<>>)

match_arm(event) ==
    CASE event = "HW" -> <<call("print_symbol_events", "HW_EVENTS", <<"H", "a", "r", "d", "w", "a", "r", "e", " ", "E", "v", "e", "n", "t", "s">>)>>
      [] event = "SW" -> <<call("print_symbol_events", "SW_EVENTS", <<"H", "a", "r", "d", "w", "a", "r", "e", " ", "E", "v", "e", "n", "t", "s">>)>>
      [] event = "Cache" -> <<stub("print_cache_events")>>
      [] event = "Tracepoint" -> <<print_tracepoint_events>>
      [] event = "PMU" -> <<stub("print_pmu_events")>>
      [] event = "SDT" -> <<stub("print_sdt_events")>>
      [] event = "Metric" -> <<stub("print_metric_events")>>
      [] event = "MetricGroup" -> <<stub("print_metric_group_events")>>
      [] event = "EventGlob" -> <<stub("print_event_glob_events")>>
      [] event = "None" ->
           <<println(<<"H", "a", "r", "d", "w", "a", "r", "e", " ", "e", "v", "e", "n", "t", "s", ":">>),
             call("print_symbol_events", "HW_EVENTS", <<"H", "a", "r", "d", "w", "a", "r", "e", " ", "E", "v", "e", "n", "t", "s">>),
             println(<<"\n", "S", "o", "f", "t", "w", "a", "r", "e", " ", "e", "v", "e", "n", "t", "s", ":">>),
             call("print_symbol_events", "SW_EVENTS", <<"S", "o", "f", "t", "w", "a", "r", "e", " ", "E", "v", "e", "n", "t", "s">>),
             println(<<"\n", "C", "a", "c", "h", "e", " ", "e", "v", "e", "n", "t", "s", ":">>),
             stub("print_cache_events"),
             println(<<"\n", "T", "r", "a", "c", "e", "p", "o", "i", "n", "t", " ", "e", "v", "e", "n", "t", "s", ":">>),
             print_tracepoint_events,
             println(<<"\n", "P", "M", "U", " ", "e", "v", "e", "n", "t", "s", ":">>),
             stub("print_pmu_events"),
             println(<<"\n", "S", "D", "T", " ", "e", "v", "e", "n", "t", "s", ":">>),
             stub("print_sdt_events"),
             println(<<"\n", "M", "e", "t", "r", "i", "c", " ", "e", "v", "e", "n", "t", "s", ":">>),
             stub("print_metric_events"),
             println(<<"\n", "M", "e", "t", "r", "i", "c", " ", "g", "r", "o", "u", "p", " ", "e", "v", "e", "n", "t", "s", ":">>),
             stub("print_metric_group_events"),
             println(<<"\n", "E", "v", "e", "n", "t", " ", "g", "l", "o", "b", " ", "e", "v", "e", "n", "t", "s", ":">>),
             stub("print_event_glob_events")>>

do_list_steps(event) == match_arm(event) \o <<print_tracepoint_events>>

heading == <<"L", "i", "s", "t", " ", "o", "f", " ", "p", "r", "e", "-", "d", "e", "f", "i", "n", "e", "d", " ", "e", "v", "e", "n", "t", "s", " ", "(", "t", "o", " ", "b", "e", " ", "u", "s", "e", "d", " ", "i", "n", " ", "-", "e", " ", "o", "r", " ", "-", "M", ")", ":", "\n">>

\* what a function wrote to the standard output
written(function, lines) == [i \in 1..Len(lines) |-> [by |-> function, line |-> lines[i]]]

\* the tracepoint directory /sys/kernel/debug/tracing/events as read_dir,
\* is_dir, exists and read_to_string see it
id_file(content) == [exists |-> TRUE, readable |-> TRUE, content |-> content]

no_id_file == [exists |-> FALSE, readable |-> FALSE, content |-> <<>>]

event_dir(name, id) == [name |-> name, readable |-> TRUE, is_dir |-> TRUE, id |-> id]

plain_file(name) ==
    [name |-> name, readable |-> TRUE, is_dir |-> FALSE, listable |-> FALSE,
     entries |-> <<>>, id |-> no_id_file]

category_dir(name, listable, entries) ==
    [name |-> name, readable |-> TRUE, is_dir |-> TRUE, listable |-> listable,
     entries |-> entries]

sched ==
    category_dir(<<"s", "c", "h", "e", "d">>, TRUE,
                 <<plain_file(<<"e", "n", "a", "b", "l", "e">>),
                   event_dir(<<"s", "c", "h", "e", "d", "_", "w", "a", "k", "e", "u", "p">>, id_file(<<"3", "1", "4", "\n">>)),
                   event_dir(<<"s", "c", "h", "e", "d", "_", "s", "w", "i", "t", "c", "h">>, id_file(<<"1", "\n">>))>>)

irq == category_dir(<<"i", "r", "q">>, TRUE, <<event_dir(<<"i", "r", "q", "_", "h", "a", "n", "d", "l", "e", "r", "_", "e", "n", "t", "r", "y">>, no_id_file)>>)

TraceFs ==
    {[listable |-> FALSE, entries |-> <<>>],
     [listable |-> TRUE, entries |-> <<>>],
     [listable |-> TRUE, entries |-> <<plain_file(<<"h", "e", "a", "d", "e", "r", "_", "p", "a", "g", "e">>), sched, irq>>],
     [listable |-> TRUE, entries |-> <<sched, category_dir(<<"i", "r", "q">>, FALSE, <<>>)>>],
     [listable |-> TRUE,
      entries |-> <<category_dir(<<"i", "r", "q">>, TRUE,
                                 <<event_dir(<<"i", "r", "q", "_", "h", "a", "n", "d", "l", "e", "r", "_", "e", "n", "t", "r", "y">>, id_file(<<"\n">>))>>)>>]}

\* the arguments of print_event other than args
NoArguments ==
    [pmu_name |-> None, event_name |-> None, event_alias |-> None, deprecated |-> FALSE,
     event_type_desc |-> None, desc |-> None, long_desc |-> None, encoding_desc |-> None]

NotReturned == [st |-> "NotCalled", v |-> <<>>]

\* how far a name goes beyond the column of the tag
NameSlack == 1

LongName == <<"s", "y", "s", ":">> \o repeat("x", TagColumn + NameSlack - 4)

Arguments ==
    [pmu_name : {None, Some(default_core), Some(<<"c", "p", "u">>)},
     event_name : {None, Some(<<"c", "p", "u", "-", "c", "y", "c", "l", "e", "s">>), Some(<<"s", "c", "h", "e", "d", ":", "s", "c", "h", "e", "d", "_", "s", "w", "i", "t", "c", "h">>), Some(LongName)},
     event_alias : {None, Some(<<"c", "y", "c", "l", "e", "s">>)},
     deprecated : BOOLEAN,
     event_type_desc : {None, Some(<<"H", "a", "r", "d", "w", "a", "r", "e", " ", "e", "v", "e", "n", "t">>), Some(<<"T", "r", "a", "c", "e", "p", "o", "i", "n", "t", " ", "e", "v", "e", "n", "t">>)},
     desc : {None, Some(<<>>), Some(<<"C", "y", "c", "l", "e", "s">>), Some(<<"C", "y", "c", "l", "e", "s", ".">>)},
     long_desc : {None, Some(<<"P", "E", "R", "F", "_", "C", "O", "U", "N", "T", "_", "H", "W", "_", "C", "P", "U", "_", "C", "Y", "C", "L", "E", "S">>)},
     encoding_desc : {None, Some(<<"t", "r", "a", "c", "e", "p", "o", "i", "n", "t", "/", "c", "o", "n", "f", "i", "g", "=", "0", "x", "1", "/">>)}]

ParserIdle ==
    /\ input = <<>>
    /\ op = "none"
    /\ result = NoResult
    /\ serialized = <<>>
    /\ diagnostic = NoDiagnostic

ListIdle ==
    /\ list_args = DefaultListArgs
    /\ COLUMNS = None
    /\ arguments = NoArguments
    /\ returned = NotReturned
    /\ tracepoint_dir = [listable |-> TRUE, entries |-> <<>>]
    /\ pipe = "open"
    /\ steps = <<>>
    /\ stdout = <<>>
    /\ status = "idle"
    /\ tracepoint_reads = 0

-----------------------------------------------------------------------------
(* The operations of the parser *)

Init ==
    /\ input \in Inputs
    /\ op = "none"
    /\ result = NoResult
    /\ serialized = <<>>
    /\ diagnostic = NoDiagnostic
    /\ ListIdle

\* PmuEventModifier::try_from(c) for a single character c
TryFrom ==
    /\ op = "none"
    /\ Len(input) = 1
    /\ op' = "try_from"
    /\ result' = IF try_from(input[1]) = "Err"
                 THEN [st |-> "Err", event |-> NoEvent, rest |-> <<>>, pos |-> 0]
                 ELSE [st |-> "Ok", event |-> ModifierList(<<try_from(input[1])>>),
                       rest |-> <<>>, pos |-> 0]
    /\ UNCHANGED <<input, serialized, diagnostic, list_vars>>

\* modifier().easy_parse(input), as in test_modifier
Modifier ==
    /\ op = "none"
    /\ op' = "modifier"
    /\ result' = LET r == modifier(input, 1)
                 IN  easy_parse([r EXCEPT !.val = IF IsOk(r) THEN ModifierList(<<r.val>>)
                                                  ELSE NoEvent], input)
    /\ UNCHANGED <<input, serialized, diagnostic, list_vars>>

\* (modifiers(), eof()).map(|(modifiers, _)| modifiers).easy_parse(input), as
\* in test_modifiers
Modifiers ==
    /\ op = "none"
    /\ op' = "modifiers"
    /\ result' = LET r == modifiers(input, 1)
                 IN  easy_parse(then_eof([r EXCEPT !.val = IF IsOk(r) THEN ModifierList(r.val)
                                                           ELSE NoEvent], input), input)
    /\ diagnostic' = modifiers_error(input)
    /\ UNCHANGED <<input, serialized, list_vars>>

\* (parse_symbolic_event(), eof()).easy_parse(input), as in
\* test_parse_symbolic_event
ParseSymbolicEvent ==
    /\ op = "none"
    /\ op' = "parse_symbolic_event"
    /\ result' = easy_parse(then_eof(parse_symbolic_event(input, 1), input), input)
    /\ UNCHANGED <<input, serialized, diagnostic, list_vars>>

\* (parse_tracepoint_event(), eof()).easy_parse(input), as in
\* test_parse_tracepoint_event
ParseTracepointEvent ==
    /\ op = "none"
    /\ op' = "parse_tracepoint_event"
    /\ result' = easy_parse(then_eof(parse_tracepoint_event(input, 1), input), input)
    /\ UNCHANGED <<input, serialized, diagnostic, list_vars>>

\* (parse_raw_event(), eof()).easy_parse(input), as in test_raw_event
ParseRawEvent ==
    /\ op = "none"
    /\ op' = "parse_raw_event"
    /\ result' = easy_parse(then_eof(parse_raw_event(input, 1), input), input)
    /\ UNCHANGED <<input, serialized, diagnostic, list_vars>>

\* (parse_event(), eof()).easy_parse(input), as in test_event
ParseEvent ==
    /\ op = "none"
    /\ op' = "parse_event"
    /\ result' = easy_parse(then_eof(parse_event(input, 1), input), input)
    /\ UNCHANGED <<input, serialized, diagnostic, list_vars>>

\* parse_name().easy_parse(input)
ParseName ==
    /\ op = "none"
    /\ op' = "parse_name"
    /\ result' = LET r == parse_name(input, 1)
                 IN  easy_parse([r EXCEPT !.val = IF IsOk(r) THEN SymbolicEvent(r.val, <<>>)
                                                  ELSE NoEvent], input)
    /\ UNCHANGED <<input, serialized, diagnostic, list_vars>>

\* the event parse_event returned is written back as a specifier and that
\* specifier is parsed again with (parse_event(), eof())
Reparse ==
    /\ op = "parse_event"
    /\ result.st = "Ok"
    /\ op' = "reparse"
    /\ LET text == serialize(result.event)
       IN  /\ serialized' = text
           /\ result' = easy_parse(then_eof(parse_event(text, 1), text), text)
    /\ UNCHANGED <<input, diagnostic, list_vars>>

Next ==
    \/ TryFrom
    \/ Modifier
    \/ Modifiers
    \/ ParseName
    \/ ParseSymbolicEvent
    \/ ParseTracepointEvent
    \/ ParseRawEvent
    \/ ParseEvent
    \/ Reparse

Spec == Init /\ [][Next]_vars

-----------------------------------------------------------------------------
(* The operations of perf list *)

\* a call of print_event with any arguments (a description of several words
\* is not wrapped: the terminal is wide enough for it), or a run of do_list
\* with any event type over any tracepoint directory
InitList ==
    /\ ParserIdle
    /\ returned = NotReturned
    /\ pipe = "open"
    /\ steps = <<>>
    /\ stdout = <<>>
    /\ tracepoint_reads = 0
    /\ \/ /\ status = "call"
          /\ list_args \in [desc : BOOLEAN, long_desc : BOOLEAN, details : BOOLEAN,
                       deprecated : BOOLEAN, event : {"None"}]
          /\ COLUMNS \in {None, Some(NarrowColumns), Some(NoColumns)}
          /\ arguments \in Arguments
          /\ COLUMNS = Some(NarrowColumns) => arguments.pmu_name # Some(default_core)
          /\ tracepoint_dir = [listable |-> TRUE, entries |-> <<>>]
       \/ /\ status = "start"
          /\ list_args \in [desc : {TRUE}, long_desc : {FALSE}, details : BOOLEAN,
                       deprecated : BOOLEAN, event : EventType \cup {"None"}]
          /\ COLUMNS = None
          /\ arguments = NoArguments
          /\ tracepoint_dir \in TraceFs

\* print_event(&list_args, pmu_name, event_name, ..)
PrintEvent ==
    /\ status = "call"
    /\ status' = "returned"
    /\ returned' = print_event(list_args, arguments.pmu_name, arguments.event_name,
                               arguments.event_alias, arguments.deprecated,
                               arguments.event_type_desc, arguments.desc,
                               arguments.long_desc, arguments.encoding_desc, COLUMNS)
    /\ UNCHANGED <<parser_vars, list_args, COLUMNS, arguments, tracepoint_dir, pipe, steps, stdout,
                   tracepoint_reads>>

\* the pager exits: every later write to the standard output fails with
\* BrokenPipe
PipeBreaks ==
    /\ status \in {"start", "running"}
    /\ pipe = "open"
    /\ pipe' = "broken"
    /\ UNCHANGED <<parser_vars, list_args, COLUMNS, arguments, returned, tracepoint_dir, steps, stdout,
                   status, tracepoint_reads>>

\* do_list up to the match: the pager and the heading (println! panics when
\* the write fails)
DoList ==
    /\ status = "start"
    /\ IF pipe = "broken"
       THEN status' = "Panic" /\ steps' = <<>> /\ stdout' = stdout
       ELSE /\ status' = "running"
            /\ steps' = do_list_steps(list_args.event)
            /\ stdout' = stdout \o written("do_list", <<heading>>)
    /\ UNCHANGED <<parser_vars, list_args, COLUMNS, arguments, returned, tracepoint_dir, pipe,
                   tracepoint_reads>>

\* println!("..events:") of the arm for no event type
Println ==
    /\ status = "running"
    /\ steps # <<>>
    /\ Head(steps).step = "println"
    /\ IF pipe = "broken"
       THEN status' = "Panic" /\ steps' = <<>> /\ stdout' = stdout
       ELSE /\ status' = status
            /\ steps' = Tail(steps)
            /\ stdout' = stdout \o written("do_list", <<Head(steps).text>>)
    /\ UNCHANGED <<parser_vars, list_args, COLUMNS, arguments, returned, tracepoint_dir, pipe,
                   tracepoint_reads>>

\* print_symbol_events(events, event_type): the lines of the table, sorted,
\* written until a write fails with BrokenPipe
PrintSymbolEvents ==
    /\ status = "running"
    /\ steps # <<>>
    /\ Head(steps).step = "print_symbol_events"
    /\ steps' = Tail(steps)
    /\ stdout' = IF pipe = "broken" THEN stdout
                 ELSE stdout \o written("print_symbol_events",
                                        symbol_lines(IF Head(steps).events = "HW_EVENTS"
                                                     THEN HW_EVENTS ELSE SW_EVENTS,
                                                     Head(steps).text, COLUMNS))
    /\ UNCHANGED <<parser_vars, list_args, COLUMNS, arguments, returned, tracepoint_dir, pipe, status,
                   tracepoint_reads>>

\* print_cache_events, print_pmu_events, print_sdt_events,
\* print_metric_events, print_metric_group_events, print_event_glob_events:
\* Ok(()) and nothing else
PrintNothing ==
    /\ status = "running"
    /\ steps # <<>>
    /\ Head(steps).step \in {"print_cache_events", "print_pmu_events", "print_sdt_events",
                             "print_metric_events", "print_metric_group_events",
                             "print_event_glob_events"}
    /\ steps' = Tail(steps)
    /\ UNCHANGED <<parser_vars, list_args, COLUMNS, arguments, returned, tracepoint_dir, pipe, stdout,
                   status, tracepoint_reads>>

\* print_tracepoint_events(&list_args)?: the tracepoint directory is read, and
\* its tracepoints are written, sorted, until a write fails with BrokenPipe;
\* an error of read_dir ends do_list
PrintTracepointEvents ==
    /\ status = "running"
    /\ steps # <<>>
    /\ Head(steps).step = "print_tracepoint_events"
    /\ tracepoint_reads' = tracepoint_reads + 1
    /\ LET read == tracepoint_lines(list_args, tracepoint_dir, COLUMNS)
       IN  IF read.st = "Ok"
           THEN /\ status' = status
                /\ steps' = Tail(steps)
                /\ stdout' = IF pipe = "broken" THEN stdout
                             ELSE stdout \o written("print_tracepoint_events", read.lines)
           ELSE status' = read.st /\ steps' = <<>> /\ stdout' = stdout
    /\ UNCHANGED <<parser_vars, list_args, COLUMNS, arguments, returned, tracepoint_dir, pipe>>

\* Ok(())
Return ==
    /\ status = "running"
    /\ steps = <<>>
    /\ status' = "Ok"
    /\ UNCHANGED <<parser_vars, list_args, COLUMNS, arguments, returned, tracepoint_dir, pipe, steps,
                   stdout, tracepoint_reads>>

NextList ==
    \/ PrintEvent
    \/ PipeBreaks
    \/ DoList
    \/ Println
    \/ PrintSymbolEvents
    \/ PrintNothing
    \/ PrintTracepointEvents
    \/ Return

SpecList == InitList /\ [][NextList]_vars

-----------------------------------------------------------------------------
(* The grammar as the documentation states it, independent of the parsers *)

ModChars == <<"u", "k", "h", "I", "G", "H", "p", "P", "S", "D", "W", "e", "b">>

ModNames ==
    <<"UserSpaceCounting", "KernelCounting", "HypervisorCounting",
      "NonIdleCounting", "GuestCounting", "HostCounting", "PreciseLevel",
      "UseMaxPreciseLevel", "ReadSampleValue", "Pin", "GroupWeak",
      "GroupExclusive", "BpfAggregation">>

ValidModChars == {ModChars[i] : i \in DOMAIN ModChars}

ModifierOf(c) == ModNames[CHOOSE i \in DOMAIN ModChars : ModChars[i] = c]

ModifiersOf(w) == [i \in 1..Len(w) |-> ModifierOf(w[i])]

AllIn(w, S) == \A i \in 1..Len(w) : w[i] \in S

From(s, k) == SubSeq(s, k, Len(s))

NameStartChars == Digits \cup LowerLetters \cup UpperLetters \cup {"_", "*", "?", "[", "]"}

NameRestChars == NameStartChars \cup {".", "!", "-"}

HexChars == <<"0", "1", "2", "3", "4", "5", "6", "7", "8", "9",
              "a", "b", "c", "d", "e", "f">>

UpperHexChars == <<"0", "1", "2", "3", "4", "5", "6", "7", "8", "9",
                   "A", "B", "C", "D", "E", "F">>

HexCharSet == {HexChars[i] : i \in DOMAIN HexChars} \cup {UpperHexChars[i] : i \in DOMAIN UpperHexChars}

HexDigitValue(c) ==
    (CHOOSE i \in DOMAIN HexChars : HexChars[i] = c \/ UpperHexChars[i] = c) - 1

IsNameToken(w) ==
    /\ Len(w) >= 2
    /\ w[1] \in NameStartChars
    /\ AllIn(Tail(w), NameRestChars)

\* ':' and at least one valid modifier character
IsSuffix(w) == Len(w) >= 2 /\ w[1] = ":" /\ AllIn(Tail(w), ValidModChars)

\* no suffix, or one of 1 to 16 modifier characters
IsOptSuffix(w) == w = <<>> \/ (IsSuffix(w) /\ Len(w) - 1 <= 16)

SuffixModifiers(w) == IF w = <<>> THEN <<>> ELSE ModifiersOf(Tail(w))

HasPrefix0x(w) == Len(w) >= 4 /\ w[2] = "0" /\ w[3] = "x"

\* 'r', an optional "0x", one or more hexadecimal digits
IsRawBody(w) ==
    /\ Len(w) >= 2
    /\ w[1] = "r"
    /\ \/ AllIn(Tail(w), HexCharSet)
       \/ HasPrefix0x(w) /\ AllIn(From(w, 4), HexCharSet)

RawDigits(w) == IF HasPrefix0x(w) THEN From(w, 4) ELSE Tail(w)

\* the digit values of a numeral without its leading zeros
RECURSIVE Significant(_)
Significant(ds) ==
    IF ds # <<>> /\ HexDigitValue(ds[1]) = 0 THEN Significant(Tail(ds))
    ELSE [i \in 1..Len(ds) |-> HexDigitValue(ds[i])]

\* the number a sequence of digit values denotes in base 16 (short ones only)
RECURSIVE Base16(_)
Base16(v) == IF v = <<>> THEN 0 ELSE 16 * Base16(SubSeq(v, 1, Len(v) - 1)) + v[Len(v)]

FitsU64(ds) == Len(Significant(ds)) <= 16

\* Name ':' Name
IsTracepointBody(w) ==
    \E j \in 1..Len(w) :
        /\ w[j] = ":"
        /\ IsNameToken(SubSeq(w, 1, j - 1))
        /\ IsNameToken(From(w, j + 1))

\* the ways to read s as a body of the given form followed by an optional suffix
RawSplits(s) == {k \in 1..Len(s) : IsRawBody(SubSeq(s, 1, k)) /\ IsOptSuffix(From(s, k + 1))}

TracepointSplits(s) ==
    {k \in 1..Len(s) : IsTracepointBody(SubSeq(s, 1, k)) /\ IsOptSuffix(From(s, k + 1))}

SymbolicSplits(s) ==
    {k \in 1..Len(s) : IsNameToken(SubSeq(s, 1, k)) /\ IsOptSuffix(From(s, k + 1))}

MatchesRaw(s) == RawSplits(s) # {}

MatchesTracepoint(s) == TracepointSplits(s) # {}

MatchesSymbolic(s) == SymbolicSplits(s) # {}

Colons(s) == Cardinality({i \in 1..Len(s) : s[i] = ":"})

-----------------------------------------------------------------------------
(* Claims *)

\* what the tracepoint alternative, and after it the symbolic one, yield for
\* the full input
LaterAlternatives(s) ==
    LET tracepoint == attempt(parse_tracepoint_event(s, 1))
        symbolic   == attempt(parse_symbolic_event(s, 1))
    IN  easy_parse(then_eof(IF tracepoint.st # "PeekErr" THEN tracepoint ELSE symbolic, s), s)

RawMatchesOnlyProperPrefix(s) ==
    /\ ~MatchesRaw(s)
    /\ \E k \in 1..(Len(s) - 1) : MatchesRaw(SubSeq(s, 1, k))

\* C1: when the raw-event grammar matches only a proper prefix of the input,
\* parse_event followed by end-of-input rejects the raw alternative and
\* returns what the tracepoint or symbolic alternative yields for the input.
C1_RawPrefixRejected ==
    (op = "parse_event" /\ RawMatchesOnlyProperPrefix(input)) =>
        /\ result.st = LaterAlternatives(input).st
        /\ result.event = LaterAlternatives(input).event

IsOverflowingRaw(s) ==
    \E k \in 1..Len(s) :
        /\ IsRawBody(SubSeq(s, 1, k))
        /\ IsOptSuffix(From(s, k + 1))
        /\ ~FitsU64(RawDigits(SubSeq(s, 1, k)))

\* C2: a raw-event input whose hexadecimal value exceeds 2^64 - 1 is answered
\* with an error value: no panic, and no RawEvent with a wrapped value.
C2_OverflowIsError ==
    (op \in {"parse_raw_event", "parse_event"} /\ IsOverflowingRaw(input)) =>
        result.st = "Err"

\* C3: parse_event returns the result of the earliest alternative that matches
\* the whole input: an input of the raw form is a RawEvent, and an input that
\* matches both the tracepoint and the symbolic grammar is a TracepointEvent.
C3_EarliestAlternative ==
    op = "parse_event" =>
        /\ result.st = "Ok" =>
               result.event.kind \in {"RawEvent", "TracepointEvent", "SymbolicEvent"}
        /\ MatchesRaw(input) =>
               (result.st = "Ok" /\ result.event.kind = "RawEvent")
        /\ (~MatchesRaw(input) /\ MatchesTracepoint(input) /\ MatchesSymbolic(input)) =>
               (result.st = "Ok" /\ result.event.kind = "TracepointEvent")

\* C4: each of the 13 modifier characters converts to, and parses as, its own
\* enumerated value; for every other character the conversion and the
\* modifier parser both fail.
C4_ModifierAlphabet ==
    /\ Cardinality({ModifierOf(c) : c \in ValidModChars}) = 13
    /\ op = "try_from" =>
           IF input[1] \in ValidModChars
           THEN result.st = "Ok" /\ result.event.modifier = <<ModifierOf(input[1])>>
           ELSE result.st = "Err"
    /\ op = "modifier" =>
           IF input # <<>> /\ input[1] \in ValidModChars
           THEN /\ result.st = "Ok"
                /\ result.event.modifier = <<ModifierOf(input[1])>>
                /\ result.rest = Tail(input)
           ELSE result.st = "Err"

C4_Witness ==
    /\ op = "modifier"
    /\ input = <<"b">>
    /\ result.st = "Ok"
    /\ result.event.modifier = <<"BpfAggregation">>

\* C5: a suffix ':' c1..cn of 1 to 16 valid modifier characters parses to the
\* sequence of n modifiers whose i-th element is the modifier of ci: the order
\* is kept, duplicates are kept, and no combination is rejected.
C5_ModifiersInOrder ==
    (op = "modifiers" /\ IsSuffix(input) /\ Len(input) - 1 <= 16) =>
        /\ result.st = "Ok"
        /\ Len(result.event.modifier) = Len(input) - 1
        /\ \A i \in 1..(Len(input) - 1) :
               result.event.modifier[i] = ModifierOf(input[i + 1])

C5_Witness ==
    /\ op = "modifiers"
    /\ input = <<":">> \o ModRun(MaxModifiers)
    /\ result.st = "Ok"
    /\ result.event.modifier[1] = "UserSpaceCounting"
    /\ result.event.modifier[2] = "KernelCounting"
    /\ result.event.modifier[8] = "UserSpaceCounting"

\* C6 as stated: parsing ':uppp' as a modifier sequence yields
\* [UserSpaceCounting, UseMaxPreciseLevel, UseMaxPreciseLevel, UseMaxPreciseLevel].
C6_uppp_UseMaxPreciseLevel ==
    (op = "modifiers" /\ input = <<":", "u", "p", "p", "p">>) =>
        /\ result.st = "Ok"
        /\ result.event.modifier =
               <<"UserSpaceCounting", "UseMaxPreciseLevel", "UseMaxPreciseLevel",
                 "UseMaxPreciseLevel">>

\* C6 amended: parsing ':uppp' as a modifier sequence yields
\* [UserSpaceCounting, PreciseLevel, PreciseLevel, PreciseLevel].
C6_uppp_PreciseLevel ==
    (op = "modifiers" /\ input = <<":", "u", "p", "p", "p">>) =>
        /\ result.st = "Ok"
        /\ result.event.modifier =
               <<"UserSpaceCounting", "PreciseLevel", "PreciseLevel", "PreciseLevel">>

C6_Witness ==
    /\ op = "modifiers"
    /\ input = <<":", "u", "p", "p", "p">>
    /\ result.st = "Ok"
    /\ Len(result.event.modifier) = 4

\* the cases of a modifier suffix after a body of the form IsBody: with n the
\* number of valid modifier characters after the colon, and the input ending
\* there, the parse fails for n = 0, succeeds with n modifiers for 1 <= n <= 16
\* and fails for n >= 17 (a raw body is one whose value fits 64 bits)
SuffixBounds(s, IsBody(_)) ==
    \A k \in 0..(Len(s) - 1) :
        (/\ IsBody(SubSeq(s, 1, k))
         /\ s[k + 1] = ":"
         /\ AllIn(From(s, k + 2), ValidModChars)) =>
            LET n == Len(s) - k - 1
            IN  /\ n = 0 => result.st = "Err"
                /\ n \in 1..16 =>
                       /\ result.st = "Ok"
                       /\ Len(result.event.modifier) = n
                /\ n >= 17 => result.st = "Err"

IsEmptyBody(w) == w = <<>>

IsRawBodyU64(w) == IsRawBody(w) /\ FitsU64(RawDigits(w))

\* C7: a colon-introduced suffix holds 1 to 16 modifier characters before the
\* input ends: for the modifier sequence and for each event form, ':' with no
\* modifier character fails, 16 modifier characters succeed and 17 or more
\* fail; a parsed event has 0 to 16 modifiers, and 0 only without a suffix.
C7_SuffixLength ==
    /\ op = "modifiers" => SuffixBounds(input, IsEmptyBody)
    /\ op = "parse_symbolic_event" => SuffixBounds(input, IsNameToken)
    /\ op = "parse_tracepoint_event" => SuffixBounds(input, IsTracepointBody)
    /\ op = "parse_raw_event" => SuffixBounds(input, IsRawBodyU64)
    /\ (/\ op \in {"parse_symbolic_event", "parse_tracepoint_event",
                   "parse_raw_event", "parse_event"}
        /\ result.st = "Ok") =>
           /\ Len(result.event.modifier) \in 0..16
           /\ Len(result.event.modifier) = 0 =>
                  Colons(input) = IF result.event.kind = "TracepointEvent" THEN 1 ELSE 0
    /\ (op = "modifiers" /\ result.st = "Ok") => Len(result.event.modifier) \in 1..16

C7_Witness ==
    /\ op = "parse_tracepoint_event"
    /\ input = <<"x", "x", ":", "u", "k", ":">> \o ModRun(16)
    /\ result.st = "Ok"
    /\ Len(result.event.modifier) = 16

\* C8: 'r', an optional "0x", hexadecimal digits whose value fits 64 bits and
\* an optional modifier suffix parse to a RawEvent whose value is the base-16
\* value of the digits (leading zeros do not change it) and whose modifiers
\* are those of the suffix, or none.
C8_RawValue ==
    /\ op \in {"parse_raw_event", "parse_event"} =>
           \A k \in RawSplits(input) :
               FitsU64(RawDigits(SubSeq(input, 1, k))) =>
                   /\ result.st = "Ok"
                   /\ result.event.kind = "RawEvent"
                   /\ result.event.value = Significant(RawDigits(SubSeq(input, 1, k)))
                   /\ result.event.modifier = SuffixModifiers(From(input, k + 1))
    /\ (op \in {"parse_raw_event", "parse_event"} /\ input = <<"r", "0", "5", "0", "0">>) =>
           (Base16(result.event.value) = 1280 /\ result.event.modifier = <<>>)

C8_Witness ==
    /\ op = "parse_event"
    /\ input = <<"r","0","x","d","e","a","d","b","e","e","f","c","a","f","e",":","u">>
    /\ result.st = "Ok"
    /\ result.event.value = <<13, 14, 10, 13, 11, 14, 14, 15, 12, 10, 15, 14>>
    /\ result.event.modifier = <<"UserSpaceCounting">>

ColonOf(w) == CHOOSE j \in 1..Len(w) : w[j] = ":"

\* C9: an input Name ':' Name with an optional modifier suffix that does not
\* match the raw-event grammar in its entirety parses, with parse_event, to a
\* TracepointEvent of the first name as category, the second as name and the
\* modifiers of the suffix.
C9_Tracepoint ==
    (op = "parse_event" /\ ~MatchesRaw(input)) =>
        \A k \in TracepointSplits(input) :
            /\ result.st = "Ok"
            /\ result.event.kind = "TracepointEvent"
            /\ result.event.category = SubSeq(input, 1, ColonOf(input) - 1)
            /\ result.event.name = SubSeq(input, ColonOf(input) + 1, k)
            /\ result.event.modifier = SuffixModifiers(From(input, k + 1))

\* C10: an input Name with an optional modifier suffix that matches neither
\* the raw-event nor the tracepoint grammar in its entirety parses, with
\* parse_event, to a SymbolicEvent of that name and the modifiers of the suffix.
C10_Symbolic ==
    (op = "parse_event" /\ ~MatchesRaw(input) /\ ~MatchesTracepoint(input)) =>
        \A k \in SymbolicSplits(input) :
            /\ result.st = "Ok"
            /\ result.event.kind = "SymbolicEvent"
            /\ result.event.name = SubSeq(input, 1, k)
            /\ result.event.modifier = SuffixModifiers(From(input, k + 1))

\* C11: an event parse_event returned, written back as name (or category
\* ':' name, or 'r' and the hexadecimal value) with ':' and the modifier
\* characters when there are modifiers, parses again to an equal event.
C11_RoundTrip ==
    [][op' = "reparse" => (result'.st = "Ok" /\ result'.event = result.event)]_vars

C11_Witness ==
    /\ op = "reparse"
    /\ input = <<"r", "0", "5", "0", "0">>
    /\ serialized = <<"r", "5", "0", "0">>
    /\ result.st = "Ok"
    /\ result.event.kind = "RawEvent"

\* the inputs ':' c1..ck x.. with k >= 1 valid modifier characters and x no
\* modifier character: the k of the input, or 0
ValidRun(s) ==
    IF Len(s) >= 1 /\ s[1] = ":"
    THEN CHOOSE k \in 0..(Len(s) - 1) :
             /\ AllIn(SubSeq(s, 2, k + 1), ValidModChars)
             /\ (k + 2 <= Len(s) => s[k + 2] \notin ValidModChars)
    ELSE 0

ErrorAtFirstInvalid(s) ==
    /\ result.st = "Err"
    /\ diagnostic.pos = ValidRun(s) + 1
    /\ diagnostic.unexpected = s[ValidRun(s) + 2]
    /\ diagnostic.expected = "end of input"

\* C12 as stated: a modifier suffix of ':', one or more valid modifier
\* characters and a character that is no modifier, followed by end-of-input,
\* fails at the 0-indexed offset of the first invalid character, which is
\* reported as unexpected, with end of input expected.
C12_ErrorAtFirstInvalid ==
    (op = "modifiers" /\ ValidRun(input) >= 1 /\ ValidRun(input) + 2 <= Len(input)) =>
        ErrorAtFirstInvalid(input)

\* C12 amended: the same, for 1 to 16 valid modifier characters before the
\* invalid one; ':uvh' fails at offset 2 with 'v' unexpected.
C12_ErrorAtFirstInvalid16 ==
    /\ (/\ op = "modifiers"
        /\ ValidRun(input) \in 1..16
        /\ ValidRun(input) + 2 <= Len(input)) => ErrorAtFirstInvalid(input)
    /\ (op = "modifiers" /\ input = <<":", "u", "v", "h">>) =>
           (diagnostic.pos = 2 /\ diagnostic.unexpected = "v")

C12_Witness ==
    /\ op = "modifiers"
    /\ input = <<":", "u", "v", "h">>
    /\ result.st = "Err"
    /\ diagnostic = [pos |-> 2, unexpected |-> "v", expected |-> "end of input"]

\* what the alternatives after the raw one yield when each is run on its own
\* from offset 0 of the input: the tracepoint event, else the symbolic event,
\* else an error
FromOffset0(tracepoint, symbolic, s) ==
    IF IsOk(tracepoint) THEN easy_parse(then_eof(tracepoint, s), s)
    ELSE IF IsOk(symbolic) THEN easy_parse(then_eof(symbolic, s), s)
    ELSE [st |-> "Err", event |-> NoEvent, rest |-> <<>>, pos |-> result.pos]

ConsumedThenFailed(r) == r.st = "CommitErr"

\* C15: when the raw alternative of parse_event fails after consuming input,
\* the result is what the tracepoint alternative, else the symbolic one, yields
\* from offset 0 of the whole input; when the raw alternative fails and the
\* tracepoint alternative fails after consuming input, the result is what the
\* symbolic alternative yields from offset 0 of the whole input.
C15_FullBacktracking ==
    op = "parse_event" =>
        LET raw        == parse_raw_event(input, 1)
            tracepoint == parse_tracepoint_event(input, 1)
            symbolic   == parse_symbolic_event(input, 1)
        IN  /\ ConsumedThenFailed(raw) =>
                   result = FromOffset0(tracepoint, symbolic, input)
            /\ (IsErr(raw) /\ ConsumedThenFailed(tracepoint)) =>
                   result = FromOffset0(tracepoint, symbolic, input)

C15_Witness ==
    /\ op = "parse_event"
    /\ input = <<"r", "0", "x">>
    /\ ConsumedThenFailed(parse_raw_event(input, 1))
    /\ result.st = "Ok"
    /\ result.event = SymbolicEvent(<<"r", "0", "x">>, <<>>)

\* the length of the longest prefix of s whose characters after the first are
\* name characters
LongestName(s) ==
    CHOOSE k \in 1..Len(s) :
        /\ AllIn(SubSeq(s, 2, k), NameRestChars)
        /\ (k < Len(s) => s[k + 1] \notin NameRestChars)

EventParsers == {"parse_symbolic_event", "parse_tracepoint_event", "parse_event", "reparse"}

\* C16: parse_name succeeds exactly when the first character is a name-start
\* character and the second a name character, and returns the longest such
\* prefix (two characters or more) and leaves the rest; it fails on the empty
\* input, on any other first character and on a single character. Every name
\* and category of a parsed event is such a token.
C16_NameToken ==
    /\ op = "parse_name" =>
           IF Len(input) >= 2 /\ input[1] \in NameStartChars /\ input[2] \in NameRestChars
           THEN /\ result.st = "Ok"
                /\ result.event.name = SubSeq(input, 1, LongestName(input))
                /\ result.rest = From(input, LongestName(input) + 1)
                /\ Len(result.event.name) >= 2
           ELSE result.st = "Err"
    /\ (op \in EventParsers /\ result.st = "Ok") =>
           /\ result.event.kind = "SymbolicEvent" => IsNameToken(result.event.name)
           /\ result.event.kind = "TracepointEvent" =>
                  IsNameToken(result.event.category) /\ IsNameToken(result.event.name)

C16_Witness ==
    /\ op = "parse_name"
    /\ input = <<"c", "p", "u", "-", "c", "y", "c", "l", "e", "s", ":", "P">>
    /\ result.st = "Ok"
    /\ result.event.name = <<"c", "p", "u", "-", "c", "y", "c", "l", "e", "s">>
    /\ result.rest = <<":", "P">>

\* C17: a SymbolicEvent that parse_event followed by end-of-input returns has
\* at most one modifier; a name, ':' and two or more valid modifier characters
\* is never returned as a SymbolicEvent.
C17_SymbolicOneModifier ==
    (op \in {"parse_event", "reparse"} /\ result.st = "Ok") =>
        /\ result.event.kind = "SymbolicEvent" => Len(result.event.modifier) <= 1
        /\ (\E k \in SymbolicSplits(input) : Len(From(input, k + 1)) >= 3) =>
               (op = "parse_event" => result.event.kind # "SymbolicEvent")

C17_Witness ==
    /\ op = "parse_event"
    /\ input = <<"x", "x", ":", "u", "k">>
    /\ result.st = "Ok"
    /\ result.event = TracepointEvent(<<"x", "x">>, <<"u", "k">>, <<>>)

\* the line for an event without description text: the name, " OR " and the
\* alias, spaces up to the column of the tag, the type in brackets and, with
\* --details, a new line, 9 spaces and the encoding
NameAndAlias ==
    arguments.event_name.v
        \o (IF arguments.event_alias.some
            THEN <<" ", "O", "R", " ">> \o arguments.event_alias.v ELSE <<>>)

ExpectedLine ==
    NameAndAlias \o repeat(" ", TagColumn - Len(NameAndAlias))
        \o <<"[">> \o arguments.event_type_desc.v \o <<"]">>
        \o (IF list_args.details /\ arguments.encoding_desc.some
            THEN <<"\n">> \o repeat(" ", DetailIndent + 1) \o arguments.encoding_desc.v
            ELSE <<>>)

\* C13: for an event that is not hidden and has no description text,
\* print_event returns the name without indentation, ' OR ' and the alias when
\* there is one, spaces up to column 53 where the '[type]' tag starts and,
\* with details and an encoding description, a newline, 9 spaces and the
\* encoding description.
C13_PrintEventLine ==
    (/\ status = "returned"
     /\ returned.st # "None"
     /\ arguments.event_name.some
     /\ arguments.event_type_desc.some
     /\ ~arguments.desc.some
     /\ ~arguments.long_desc.some) =>
        /\ returned.st = "Some"
        /\ returned.v = ExpectedLine
        /\ returned.v[TagColumn + 1] = "["

\* C14: print_event returns no output exactly when the event is deprecated
\* and --deprecated is not set, and a line in every other case.
C14_DeprecatedHidden ==
    status = "returned" =>
        /\ returned.st = "None" <=> (arguments.deprecated /\ ~list_args.deprecated)
        /\ returned.st # "None" => returned.st = "Some"

TracepointsWritten ==
    Len(SelectSeq(stdout, LAMBDA w : w.by = "print_tracepoint_events"))

\* C18: in a run of do_list the tracepoints are read and printed at most
\* once, and not at all when an event type other than Tracepoint is selected.
C18_TracepointsOnce ==
    /\ tracepoint_reads <= 1
    /\ TracepointsWritten <= Len(tracepoint_lines(list_args, tracepoint_dir, COLUMNS).lines)
    /\ list_args.event \notin {"None", "Tracepoint"} =>
           (tracepoint_reads = 0 /\ TracepointsWritten = 0)

====
